---- MODULE Spec2Model ----
(***************************************************************************)
(* Model of the LND Prometheus exporter (collector.go).                    *)
(*                                                                         *)
(* LndExporter holds an immutable descriptor map (metrics), two feature    *)
(* flags and a sync.Mutex.  Collect runs once per scrape request: it takes *)
(* the mutex, opens a gRPC connection, binds one 15 s context, issues up   *)
(* to eight RPC calls in a fixed order and sends samples on the channel    *)
(* the registry handed to it.  Each scraper below is one goroutine that    *)
(* invokes Collect over and over; ch[p] is the metric stream of its        *)
(* current invocation.                                                     *)
(*                                                                         *)
(* float64 values are modelled as reduced fractions <<num, den>>.  The     *)
(* int64 -> float64 conversions of the code are exact below 2^53, which    *)
(* covers every value of the model.                                        *)
(***************************************************************************)
EXTENDS Integers, Sequences, FiniteSets, TLC

\* ------------------------------------------------------------------ bounds
NumScrapers == 2    \* concurrent scrape requests
MaxItems    == 1    \* length of the lists of a ListChannels / ListPeers /
                    \* ForwardingHistory response

Scrapers == 1..NumScrapers

\* ------------------------------------------------------------- float64
RECURSIVE Gcd(_, _)
Gcd(a, b) == IF b = 0 THEN a ELSE Gcd(b, a % b)

\* float64(n) for an integer n
Float(n) == <<n, 1>>

Abs(n) == IF n < 0 THEN -n ELSE n

Sign(n) == IF n < 0 THEN -1 ELSE IF n > 0 THEN 1 ELSE 0

\* a / b on float64 as a reduced fraction with a positive denominator; a
\* zero divisor gives +Inf, -Inf or NaN (<<1, 0>>, <<-1, 0>>, <<0, 0>>), never
\* a panic
FloatDiv(a, b) ==
    IF b = 0 THEN <<Sign(a), 0>>
    ELSE LET g == Gcd(Abs(a), Abs(b))
         IN  <<Sign(b) * (a \div g), Abs(b) \div g>>

boolToFloat(b) == IF ~b THEN Float(0) ELSE Float(1)

\* strconv.FormatBool, strconv.FormatInt(_, 10), strconv.FormatUint(_, 10)
FormatBool(b) == IF b THEN "true" ELSE "false"
FormatInt(n)  == ToString(n)
FormatUint(n) == ToString(n)

\* ------------------------------------------------------------- catalog
newGlobalMetric(namespace, metricName, docString, labels) ==
    [fqName |-> <<namespace, metricName>>, help |-> docString, labels |-> labels]

ChannelLabels ==
    <<"active", "remote_pubkey", "chan_point", "chan_id", "capacity",
      "commit_fee", "private", "initiator">>

ForwardingLabels ==
    <<"peer_alias_in", "peer_alias_out", "amount_in", "amount_out", "fee",
      "channel_id_in", "channel_id_out", "timestamp_ns">>

\* key -> <<metric name, help, label names>>, the table of NewLightningExporter
MetricTable ==
    [lnd_up |-> <<"lnd_up", "up", <<>>>>,
     forwarding_history_info |->
        <<"forwarding_history_info", "forwarding_history_info", ForwardingLabels>>,
     network_capacity_sats_total |->
        <<"network_capacity_sats_total", "network_capacity_sats_total", <<>>>>,
     network_channels_total |->
        <<"network_channels_total", "network_channels_total", <<>>>>,
     network_nodes_total |->
        <<"network_nodes_total", "network_nodes_total", <<>>>>,
     instance_info |->
        <<"instance_info", "instance_info", <<"alias", "pubkey", "version">>>>,
     wallet_balance_sats |->
        <<"wallet_balance_sats", "The wallet balance.", <<"status">>>>,
     peers |-> <<"peers", "Number of currently connected peers.", <<>>>>,
     channels |-> <<"channels", "Number of channels", <<"status">>>>,
     block_height |->
        <<"block_height", "The node's current view of the height of the best block", <<>>>>,
     synced_to_chain |->
        <<"synced_to_chain", "The node's current view of the height of the best block", <<>>>>,
     channel_limbo_balance_sats |->
        <<"channel_limbo_balance_sats",
          "The balance in satoshis encumbered in pending channels", <<>>>>,
     channels_pending |->
        <<"channel_pending", "The total pending channels", <<"status", "forced">>>>,
     channels_waiting_close |->
        <<"channel_waiting_close", "Channels waiting for closing tx to confirm", <<>>>>,
     channels_balance_sats |->
        <<"channels_balance_sats", "Sum of all channel funds available", <<>>>>,
     channel_balance_sats |->
        <<"channel_balance_sats", "The channel local balance", ChannelLabels>>,
     channel_balance_percentage |->
        <<"channel_balance_percentage", "The channel local balance", ChannelLabels>>,
     peer_info |->
        <<"peer_info", "peer_info", <<"addr", "remote_pubkey", "direction">>>>,
     peer_info_received_bytes_total |->
        <<"peer_info_received_bytes_total", "peer_info_received_bytes_total", <<"addr">>>>,
     peer_info_sent_bytes_total |->
        <<"peer_info_sent_bytes_total", "peer_info_sent_bytes_total", <<"addr">>>>]

\* the LndExporter value NewLightningExporter returns (rpcAddr, the paths and
\* the unused timeout field are left out)
NewLightningExporter(namespace, peerMetrics) ==
    [metrics |->
        [k \in DOMAIN MetricTable |->
            newGlobalMetric(namespace, MetricTable[k][1], MetricTable[k][2],
                            MetricTable[k][3])],
     exportPeerMetrics    |-> peerMetrics,
     exportPaymentMetrics |-> TRUE]

Namespace == "lnd"

\* prometheus.MustNewConstMetric(desc, valueType, value, labelValues...)
MustNewConstMetric(desc, valueType, value, labelValues) ==
    [desc |-> desc, kind |-> valueType, value |-> value, labels |-> labelValues]

\* ------------------------------------------------------- RPC responses
\* The node's answers are inputs: each call draws its response from one of
\* the sets below, or fails.

\* n list entries of which only the number is read (len(...))
Entries(n) == [i \in 1..n |-> "channel"]

\* all sequences over S of length at most n
SeqUpTo(S, n) == UNION {[1..k -> S] : k \in 0..n}

InfoResponse(peers, active, pending, inactive, synced) ==
    [Alias |-> "alice", IdentityPubkey |-> "02abc", Version |-> "0.17.0",
     NumPeers |-> peers, NumActiveChannels |-> active,
     NumPendingChannels |-> pending, NumInactiveChannels |-> inactive,
     BlockHeight |-> 800, SyncedToChain |-> synced]

\* 5 peers, 2 active, 1 pending and 0 inactive channels
GetInfoResponses ==
    {InfoResponse(5, 2, 1, 0, TRUE)}

WalletBalanceResponses ==
    {[UnconfirmedBalance |-> 3, ConfirmedBalance |-> 20]}

PendingResponse(limbo, open, closing, forceClosing, waiting) ==
    [TotalLimboBalance |-> limbo,
     PendingOpenChannels |-> Entries(open),
     PendingClosingChannels |-> Entries(closing),
     PendingForceClosingChannels |-> Entries(forceClosing),
     WaitingCloseChannels |-> Entries(waiting)]

\* two of the four lists are empty
PendingChannelsResponses ==
    {PendingResponse(7, 0, 2, 0, 1)}

ChannelBalanceResponses == {[Balance |-> 45]}

ForwardingEvents ==
    {[PeerAliasIn |-> "bob", PeerAliasOut |-> "carol", AmtIn |-> 11,
      AmtOut |-> 10, Fee |-> 1, ChanIdIn |-> 1, ChanIdOut |-> 2,
      TimestampNs |-> 9]}

ForwardingHistoryResponses ==
    {[ForwardingEvents |-> es] : es \in SeqUpTo(ForwardingEvents, MaxItems)}

NetworkInfoResponses ==
    {[TotalNetworkCapacity |-> 1000, NumChannels |-> 30, NumNodes |-> 12]}

Channel(id, capacity, commitFee, localBalance, active) ==
    [Active |-> active, RemotePubkey |-> "03def", ChannelPoint |-> "tx:0",
     ChanId |-> id, Capacity |-> capacity, CommitFee |-> commitFee,
     LocalBalance |-> localBalance, Private |-> FALSE, Initiator |-> TRUE]

\* capacity - commit fee positive, zero and negative
ChannelCases ==
    {Channel(1, 100, 10, 45, TRUE),
     Channel(2, 10, 10, 0, TRUE),
     Channel(3, 5, 10, 0, FALSE)}

ListChannelsResponses ==
    {[Channels |-> cs] : cs \in SeqUpTo(ChannelCases, MaxItems)}

PeerCases ==
    {[Address |-> "10.0.0.1:9735", PubKey |-> "03def", Inbound |-> TRUE,
      BytesRecv |-> 8, BytesSent |-> 6]}

ListPeersResponses ==
    {[Peers |-> ps] : ps \in SeqUpTo(PeerCases, MaxItems)}

\* ------------------------------------------------------------------ state
VARIABLES
    metrics,               \* LndExporter.metrics: key -> descriptor
    exportPeerMetrics,     \* LndExporter.exportPeerMetrics
    exportPaymentMetrics,  \* LndExporter.exportPaymentMetrics
    mutex,                 \* the embedded sync.Mutex: 0 free, else its holder
    pc,                    \* pc[p]: the statement of Collect scraper p is at
    con,                   \* con[p]: the connection of p's invocation
    ctx,                   \* ctx[p]: the context of p's invocation
    pend,                  \* pend[p]: samples of the current probe not yet sent
    ch,                    \* ch[p]: samples sent on the channel, in order
    calls,                 \* calls[p]: RPC calls issued, each with its outcome
    log,                   \* log[p]: log lines written by p's invocation
    openConns,             \* connections dialled and not yet closed
    described,             \* descriptors the last Describe sent
    attempts,              \* attempts[p]: getGrpcClient calls of p's invocation
    reqCancelled           \* reqCancelled[p]: the client gave up p's request

vars == <<metrics, exportPeerMetrics, exportPaymentMetrics, mutex, pc, con,
          ctx, pend, ch, calls, log, openConns, described, attempts,
          reqCancelled>>

exporter == <<metrics, exportPeerMetrics, exportPaymentMetrics>>

\* ------------------------------------------------------------ the samples
UpSample(v) ==
    MustNewConstMetric(metrics["lnd_up"], "gauge", Float(v), <<>>)

\* Variant of InfoSamples: a count of zero is left out instead of sent as 0.
InfoSamplesOmitZero(stats) ==
    SelectSeq(
        <<MustNewConstMetric(metrics["instance_info"], "gauge", Float(1),
              <<stats.Alias, stats.IdentityPubkey, stats.Version>>),
          MustNewConstMetric(metrics["peers"], "gauge", Float(stats.NumPeers), <<>>),
          MustNewConstMetric(metrics["channels"], "gauge",
              Float(stats.NumActiveChannels), <<"active">>),
          MustNewConstMetric(metrics["channels"], "gauge",
              Float(stats.NumPendingChannels), <<"pending">>),
          MustNewConstMetric(metrics["channels"], "gauge",
              Float(stats.NumInactiveChannels), <<"inactive">>),
          MustNewConstMetric(metrics["block_height"], "gauge",
              Float(stats.BlockHeight), <<>>),
          MustNewConstMetric(metrics["synced_to_chain"], "gauge",
              boolToFloat(stats.SyncedToChain), <<>>)>>,
        LAMBDA m : m.desc.fqName[2] \notin {"peers", "channels"} \/ m.value # Float(0))

InfoSamples(stats) ==
    <<MustNewConstMetric(metrics["instance_info"], "gauge", Float(1),
          <<stats.Alias, stats.IdentityPubkey, stats.Version>>),
      MustNewConstMetric(metrics["peers"], "gauge", Float(stats.NumPeers), <<>>),
      MustNewConstMetric(metrics["channels"], "gauge",
          Float(stats.NumActiveChannels), <<"active">>),
      MustNewConstMetric(metrics["channels"], "gauge",
          Float(stats.NumPendingChannels), <<"pending">>),
      MustNewConstMetric(metrics["channels"], "gauge",
          Float(stats.NumInactiveChannels), <<"inactive">>),
      MustNewConstMetric(metrics["block_height"], "gauge",
          Float(stats.BlockHeight), <<>>),
      MustNewConstMetric(metrics["synced_to_chain"], "gauge",
          boolToFloat(stats.SyncedToChain), <<>>)>>

WalletSamples(walletStats) ==
    <<MustNewConstMetric(metrics["wallet_balance_sats"], "gauge",
          Float(walletStats.UnconfirmedBalance), <<"unconfirmed">>),
      MustNewConstMetric(metrics["wallet_balance_sats"], "gauge",
          Float(walletStats.ConfirmedBalance), <<"confirmed">>)>>

PendingSamples(pendingChannelsStats) ==
    <<MustNewConstMetric(metrics["channel_limbo_balance_sats"], "gauge",
          Float(pendingChannelsStats.TotalLimboBalance), <<>>),
      MustNewConstMetric(metrics["channels_pending"], "gauge",
          Float(Len(pendingChannelsStats.PendingOpenChannels)),
          <<"opening", "false">>),
      MustNewConstMetric(metrics["channels_pending"], "gauge",
          Float(Len(pendingChannelsStats.PendingClosingChannels)),
          <<"closing", "false">>),
      MustNewConstMetric(metrics["channels_pending"], "gauge",
          Float(Len(pendingChannelsStats.PendingForceClosingChannels)),
          <<"closing", "true">>),
      MustNewConstMetric(metrics["channels_waiting_close"], "gauge",
          Float(Len(pendingChannelsStats.WaitingCloseChannels)), <<>>)>>

ChannelBalanceSamples(channelsBalanceStats) ==
    <<MustNewConstMetric(metrics["channels_balance_sats"], "gauge",
          Float(channelsBalanceStats.Balance), <<>>)>>

ForwardingSample(f) ==
    MustNewConstMetric(metrics["forwarding_history_info"], "gauge", Float(1),
        <<f.PeerAliasIn, f.PeerAliasOut, FormatUint(f.AmtIn),
          FormatUint(f.AmtOut), FormatUint(f.Fee), FormatUint(f.ChanIdIn),
          FormatUint(f.ChanIdOut), FormatUint(f.TimestampNs)>>)

ForwardingSamples(fwdHistoryStats) ==
    [i \in 1..Len(fwdHistoryStats.ForwardingEvents) |->
        ForwardingSample(fwdHistoryStats.ForwardingEvents[i])]

NetworkSamples(networkInfo) ==
    <<MustNewConstMetric(metrics["network_capacity_sats_total"], "gauge",
          Float(networkInfo.TotalNetworkCapacity), <<>>),
      MustNewConstMetric(metrics["network_channels_total"], "gauge",
          Float(networkInfo.NumChannels), <<>>),
      MustNewConstMetric(metrics["network_nodes_total"], "gauge",
          Float(networkInfo.NumNodes), <<>>)>>

\* Variant of ChannelLbls: the initiator value is left out.
ChannelLblsShort(channel) ==
    <<FormatBool(channel.Active), channel.RemotePubkey, channel.ChannelPoint,
      FormatUint(channel.ChanId), FormatInt(channel.Capacity),
      FormatInt(channel.CommitFee), FormatBool(channel.Private)>>

\* lbls of one channel
ChannelLbls(channel) ==
    <<FormatBool(channel.Active), channel.RemotePubkey, channel.ChannelPoint,
      FormatUint(channel.ChanId), FormatInt(channel.Capacity),
      FormatInt(channel.CommitFee), FormatBool(channel.Private),
      FormatBool(channel.Initiator)>>

\* Variant of ChannelSamples: the guard tests the capacity, not the capacity
\* less the commit fee.
ChannelSamplesCapacityGuard(channel) ==
    LET lbls         == ChannelLbls(channel)
        realCapacity == channel.Capacity - channel.CommitFee
    IN  (IF channel.Capacity > 0
         THEN <<MustNewConstMetric(metrics["channel_balance_percentage"], "gauge",
                    FloatDiv(channel.LocalBalance, realCapacity), lbls)>>
         ELSE <<>>)
        \o <<MustNewConstMetric(metrics["channel_balance_sats"], "gauge",
                 Float(channel.LocalBalance), lbls)>>

\* the body of the loop over the channels, for one channel
ChannelSamples(channel) ==
    LET lbls         == ChannelLbls(channel)
        realCapacity == channel.Capacity - channel.CommitFee
    IN  (IF realCapacity > 0
         THEN <<MustNewConstMetric(metrics["channel_balance_percentage"], "gauge",
                    FloatDiv(channel.LocalBalance, realCapacity), lbls)>>
         ELSE <<>>)
        \o <<MustNewConstMetric(metrics["channel_balance_sats"], "gauge",
                 Float(channel.LocalBalance), lbls)>>

RECURSIVE Flatten(_)
Flatten(ss) == IF ss = <<>> THEN <<>> ELSE Head(ss) \o Flatten(Tail(ss))

ListChannelsSamples(channelBalanceStats) ==
    Flatten([i \in 1..Len(channelBalanceStats.Channels) |->
                ChannelSamples(channelBalanceStats.Channels[i])])

PeerSamples(peer) ==
    LET dir == IF peer.Inbound THEN "inbound" ELSE "outbound"
    IN  <<MustNewConstMetric(metrics["peer_info"], "gauge", Float(1),
              <<peer.Address, peer.PubKey, dir>>),
          MustNewConstMetric(metrics["peer_info_received_bytes_total"], "counter",
              Float(peer.BytesRecv), <<peer.Address>>),
          MustNewConstMetric(metrics["peer_info_sent_bytes_total"], "counter",
              Float(peer.BytesSent), <<peer.Address>>)>>

ListPeersSamples(peers) ==
    Flatten([i \in 1..Len(peers.Peers) |-> PeerSamples(peers.Peers[i])])

\* ------------------------------------------------------------ the actions
Failed == [err |-> TRUE]
Ok(r)  == [err |-> FALSE, val |-> r]

\* Variant of Outcomes: every call gets a deadline of its own, so a call can
\* succeed after an earlier one ran out of time.
OutcomesPerProbeDeadline(p, responses) ==
    {Ok(r) : r \in responses} \cup {Failed}

\* what an RPC call issued under ctx[p] can return: a call under a context
\* that is already done fails
Outcomes(p, responses) ==
    IF ctx[p] = "active" THEN {Ok(r) : r \in responses} \cup {Failed}
    ELSE {Failed}

\* getGrpcClient: where it returns, and what it logs before returning
ConnectOutcomes == {"tls", "read", "unmarshal", "credential", "dial", "ok"}

getGrpcClient(outcome) ==
    [err |-> outcome # "ok",
     log |-> CASE outcome = "tls"       -> <<"Cannot get node tls credentials">>
               [] outcome = "read"      -> <<"Cannot read macaroon file">>
               [] outcome = "unmarshal" -> <<"Cannot unmarshal macaroon">>
               [] outcome = "dial"      -> <<"grpc.Dial() err">>
               [] OTHER                 -> <<>>]

\* one RPC call of scraper p with outcome o: the samples it queues for
\* sending, the lines it logs and the statement that follows
Call(p, rpc, o, samples, lines, next) ==
    /\ calls' = [calls EXCEPT ![p] = Append(@, [rpc |-> rpc, out |-> o])]
    /\ pend'  = [pend EXCEPT ![p] = samples]
    /\ log'   = [log EXCEPT ![p] = @ \o lines]
    /\ pc'    = [pc EXCEPT ![p] = next]
    /\ UNCHANGED <<exporter, mutex, con, ctx, ch, openConns, described, attempts, reqCancelled>>

\* Variant of Lock: Collect does not wait for the mutex.
LockNoWait(p) ==
    /\ pc[p] = "Lock"
    /\ mutex' = p
    /\ pc' = [pc EXCEPT ![p] = "Connect"]
    /\ UNCHANGED <<exporter, con, ctx, pend, ch, calls, log, openConns, described, attempts, reqCancelled>>

\* c.Lock()
Lock(p) ==
    /\ pc[p] = "Lock"
    /\ mutex = 0
    /\ mutex' = p
    /\ pc' = [pc EXCEPT ![p] = "Connect"]
    /\ UNCHANGED <<exporter, con, ctx, pend, ch, calls, log, openConns, described, attempts, reqCancelled>>

\* Variant of Connect: the failure branch lacks its return.
ConnectNoReturn(p) ==
    /\ pc[p] = "Connect"
    /\ \E outcome \in ConnectOutcomes :
          LET r == getGrpcClient(outcome) IN
          IF r.err
          THEN /\ log'  = [log EXCEPT ![p] = @ \o r.log \o <<"getGrpcClient() err">>]
               /\ pend' = [pend EXCEPT ![p] = <<UpSample(0)>>]
               /\ ctx'  = [ctx EXCEPT ![p] = "active"]
               /\ pc'   = [pc EXCEPT ![p] = "GetInfo"]
               /\ UNCHANGED <<con, openConns>>
          ELSE /\ con'  = [con EXCEPT ![p] = "open"]
               /\ openConns' = openConns + 1
               /\ ctx'  = [ctx EXCEPT ![p] = "active"]
               /\ pc'   = [pc EXCEPT ![p] = "GetInfo"]
               /\ UNCHANGED <<log, pend>>
    /\ attempts' = [attempts EXCEPT ![p] = @ + 1]
    /\ UNCHANGED <<exporter, mutex, ch, calls, described, reqCancelled>>

\* Variant of Connect: a connection from a cache is handed out, no attempt to
\* connect is made when one is available.
ConnectCached(p) ==
    /\ pc[p] = "Connect"
    /\ \E outcome \in ConnectOutcomes :
          LET r == getGrpcClient(outcome) IN
          IF r.err
          THEN /\ log'  = [log EXCEPT ![p] = @ \o r.log \o <<"getGrpcClient() err">>]
               /\ pend' = [pend EXCEPT ![p] = <<UpSample(0)>>]
               /\ pc'   = [pc EXCEPT ![p] = "Unlock"]
               /\ attempts' = [attempts EXCEPT ![p] = @ + 1]
               /\ UNCHANGED <<con, ctx, openConns>>
          ELSE /\ con'  = [con EXCEPT ![p] = "open"]
               /\ openConns' = openConns + 1
               /\ ctx'  = [ctx EXCEPT ![p] = "active"]
               /\ pc'   = [pc EXCEPT ![p] = "GetInfo"]
               /\ UNCHANGED <<log, pend, attempts>>
    /\ UNCHANGED <<exporter, mutex, ch, calls, described, reqCancelled>>

\* con, err := getGrpcClient(...); on failure lnd_up 0 and return
Connect(p) ==
    /\ pc[p] = "Connect"
    /\ \E outcome \in ConnectOutcomes :
          LET r == getGrpcClient(outcome) IN
          IF r.err
          THEN /\ log'  = [log EXCEPT ![p] = @ \o r.log \o <<"getGrpcClient() err">>]
               /\ pend' = [pend EXCEPT ![p] = <<UpSample(0)>>]
               /\ pc'   = [pc EXCEPT ![p] = "Unlock"]
               /\ UNCHANGED <<con, ctx, openConns>>
          ELSE /\ con'  = [con EXCEPT ![p] = "open"]
               /\ openConns' = openConns + 1
               /\ ctx'  = [ctx EXCEPT ![p] = "active"]
               /\ pc'   = [pc EXCEPT ![p] = "GetInfo"]
               /\ UNCHANGED <<log, pend>>
    /\ attempts' = [attempts EXCEPT ![p] = @ + 1]
    /\ UNCHANGED <<exporter, mutex, ch, calls, described, reqCancelled>>

\* the 15 s deadline of ctx passes; it is observed by the next RPC call
DeadlineExpire(p) ==
    /\ ctx[p] = "active"
    /\ pc[p] \in {"GetInfo", "WalletBalance", "PendingChannels", "ChannelBalance",
                  "ForwardingHistory", "GetNetworkInfo", "ListChannels", "ListPeers"}
    /\ pend[p] = <<>>
    /\ ctx' = [ctx EXCEPT ![p] = "expired"]
    /\ UNCHANGED <<exporter, mutex, pc, con, pend, ch, calls, log, openConns, described, attempts, reqCancelled>>

\* Variant of GetInfo: a failure is logged and skipped like any other probe.
GetInfoSkippable(p) ==
    /\ pc[p] = "GetInfo"
    /\ pend[p] = <<>>
    /\ \E o \in Outcomes(p, GetInfoResponses) :
          IF o.err
          THEN Call(p, "GetInfo", o, <<>>,
                    <<"rpcClient.GetInfo() err">>, "WalletBalance")
          ELSE Call(p, "GetInfo", o, InfoSamples(o.val), <<>>, "WalletBalance")

\* Variant of GetInfo: the failure branch returns past the deferred cancel
\* and Close (as if they were deferred after the call).
GetInfoLeak(p) ==
    /\ pc[p] = "GetInfo"
    /\ pend[p] = <<>>
    /\ \E o \in Outcomes(p, GetInfoResponses) :
          IF o.err
          THEN Call(p, "GetInfo", o, <<UpSample(0)>>,
                    <<"rpcClient.GetInfo() err">>, "Unlock")
          ELSE Call(p, "GetInfo", o, InfoSamples(o.val), <<>>, "WalletBalance")

\* stats, err := rpcClient.GetInfo(ctx, ...); on failure lnd_up 0 and return
GetInfo(p) ==
    /\ pc[p] = "GetInfo"
    /\ pend[p] = <<>>
    /\ \E o \in Outcomes(p, GetInfoResponses) :
          IF o.err
          THEN Call(p, "GetInfo", o, <<UpSample(0)>>,
                    <<"rpcClient.GetInfo() err">>, "cancel")
          ELSE Call(p, "GetInfo", o, InfoSamples(o.val), <<>>, "WalletBalance")

\* Variant of WalletBalance: a failure ends the scrape with lnd_up 0.
WalletBalanceAbort(p) ==
    /\ pc[p] = "WalletBalance"
    /\ pend[p] = <<>>
    /\ \E o \in Outcomes(p, WalletBalanceResponses) :
          IF o.err
          THEN Call(p, "WalletBalance", o, <<UpSample(0)>>,
                    <<"rpcClient.GetWalletStats err">>, "cancel")
          ELSE Call(p, "WalletBalance", o, WalletSamples(o.val), <<>>,
                    "PendingChannels")

\* Variant of WalletBalance: the samples are buffered behind those not yet
\* sent, and the call does not wait for the sends before it.
WalletBalanceBuffered(p) ==
    /\ pc[p] = "WalletBalance"
    /\ \E o \in Outcomes(p, WalletBalanceResponses) :
          /\ calls' = [calls EXCEPT ![p] = Append(@, [rpc |-> "WalletBalance", out |-> o])]
          /\ pend'  = [pend EXCEPT ![p] = @ \o (IF o.err THEN <<>> ELSE WalletSamples(o.val))]
          /\ log'   = [log EXCEPT ![p] =
                          @ \o (IF o.err THEN <<"rpcClient.GetWalletStats err">> ELSE <<>>)]
          /\ pc'    = [pc EXCEPT ![p] = "PendingChannels"]
    /\ UNCHANGED <<exporter, mutex, con, ctx, ch, openConns, described, attempts, reqCancelled>>

WalletBalance(p) ==
    /\ pc[p] = "WalletBalance"
    /\ pend[p] = <<>>
    /\ \E o \in Outcomes(p, WalletBalanceResponses) :
          IF o.err
          THEN Call(p, "WalletBalance", o, <<>>,
                    <<"rpcClient.GetWalletStats err">>, "PendingChannels")
          ELSE Call(p, "WalletBalance", o, WalletSamples(o.val), <<>>,
                    "PendingChannels")

\* Variant of PendingChannels: a failed call is issued again.
PendingChannelsRetry(p) ==
    /\ pc[p] = "PendingChannels"
    /\ pend[p] = <<>>
    /\ \E o \in Outcomes(p, PendingChannelsResponses) :
          IF o.err
          THEN Call(p, "PendingChannels", o, <<>>,
                    <<"rpcClient.GetPendingChannelsStats err">>, "PendingChannels")
          ELSE Call(p, "PendingChannels", o, PendingSamples(o.val), <<>>,
                    "ChannelBalance")

PendingChannels(p) ==
    /\ pc[p] = "PendingChannels"
    /\ pend[p] = <<>>
    /\ \E o \in Outcomes(p, PendingChannelsResponses) :
          IF o.err
          THEN Call(p, "PendingChannels", o, <<>>,
                    <<"rpcClient.GetPendingChannelsStats err">>, "ChannelBalance")
          ELSE Call(p, "PendingChannels", o, PendingSamples(o.val), <<>>,
                    "ChannelBalance")

\* the statement after the ChannelBalance probe: if c.exportPaymentMetrics
AfterChannelBalance ==
    IF exportPaymentMetrics THEN "ForwardingHistory" ELSE "GetNetworkInfo"

\* Variant of ChannelBalance: the sample is sent although the call failed
\* (the zero value of the response).
ChannelBalanceEmitsOnError(p) ==
    /\ pc[p] = "ChannelBalance"
    /\ pend[p] = <<>>
    /\ \E o \in Outcomes(p, ChannelBalanceResponses) :
          IF o.err
          THEN Call(p, "ChannelBalance", o, ChannelBalanceSamples([Balance |-> 0]),
                    <<"rpcClient.GetChannelsBalanceStats err">>, AfterChannelBalance)
          ELSE Call(p, "ChannelBalance", o, ChannelBalanceSamples(o.val), <<>>,
                    AfterChannelBalance)

ChannelBalance(p) ==
    /\ pc[p] = "ChannelBalance"
    /\ pend[p] = <<>>
    /\ \E o \in Outcomes(p, ChannelBalanceResponses) :
          IF o.err
          THEN Call(p, "ChannelBalance", o, <<>>,
                    <<"rpcClient.GetChannelsBalanceStats err">>, AfterChannelBalance)
          ELSE Call(p, "ChannelBalance", o, ChannelBalanceSamples(o.val), <<>>,
                    AfterChannelBalance)

ForwardingHistory(p) ==
    /\ pc[p] = "ForwardingHistory"
    /\ pend[p] = <<>>
    /\ \E o \in Outcomes(p, ForwardingHistoryResponses) :
          IF o.err
          THEN Call(p, "ForwardingHistory", o, <<>>,
                    <<"rpcClient.ForwardingHistory err">>, "GetNetworkInfo")
          ELSE Call(p, "ForwardingHistory", o, ForwardingSamples(o.val), <<>>,
                    "GetNetworkInfo")

\* the one probe without an else branch: a failure is not logged
GetNetworkInfo(p) ==
    /\ pc[p] = "GetNetworkInfo"
    /\ pend[p] = <<>>
    /\ \E o \in Outcomes(p, NetworkInfoResponses) :
          IF o.err
          THEN Call(p, "GetNetworkInfo", o, <<>>, <<>>, "ListChannels")
          ELSE Call(p, "GetNetworkInfo", o, NetworkSamples(o.val), <<>>,
                    "ListChannels")

\* Variant of AfterListChannels: the peer probe is not gated.
AfterListChannelsUngated == "ListPeers"

\* the statement after the ListChannels probe: if c.exportPeerMetrics
AfterListChannels ==
    IF exportPeerMetrics THEN "ListPeers" ELSE "Up"

ListChannels(p) ==
    /\ pc[p] = "ListChannels"
    /\ pend[p] = <<>>
    /\ \E o \in Outcomes(p, ListChannelsResponses) :
          IF o.err
          THEN Call(p, "ListChannels", o, <<>>,
                    <<"rpcClient.GetChannelBalanceStats err">>, AfterListChannels)
          ELSE Call(p, "ListChannels", o, ListChannelsSamples(o.val), <<>>,
                    AfterListChannels)

ListPeers(p) ==
    /\ pc[p] = "ListPeers"
    /\ pend[p] = <<>>
    /\ \E o \in Outcomes(p, ListPeersResponses) :
          IF o.err
          THEN Call(p, "ListPeers", o, <<>>, <<"rpcClient.ListPeers err">>, "Up")
          ELSE Call(p, "ListPeers", o, ListPeersSamples(o.val), <<>>, "Up")

\* Variant of Up: the final sample is not sent.
UpMissing(p) ==
    /\ pc[p] = "Up"
    /\ pend[p] = <<>>
    /\ pc' = [pc EXCEPT ![p] = "cancel"]
    /\ UNCHANGED <<exporter, mutex, con, ctx, pend, ch, calls, log, openConns, described, attempts, reqCancelled>>

\* the last statement: ch <- lnd_up 1
Up(p) ==
    /\ pc[p] = "Up"
    /\ pend[p] = <<>>
    /\ pend' = [pend EXCEPT ![p] = <<UpSample(1)>>]
    /\ pc' = [pc EXCEPT ![p] = "cancel"]
    /\ UNCHANGED <<exporter, mutex, con, ctx, ch, calls, log, openConns, described, attempts, reqCancelled>>

\* ch <- sample: the registry receives the next queued sample
Send(p) ==
    /\ pend[p] # <<>>
    /\ ch' = [ch EXCEPT ![p] = Append(@, Head(pend[p]))]
    /\ pend' = [pend EXCEPT ![p] = Tail(@)]
    /\ UNCHANGED <<exporter, mutex, pc, con, ctx, calls, log, openConns, described, attempts, reqCancelled>>

\* defer cancel()
Cancel(p) ==
    /\ pc[p] = "cancel"
    /\ pend[p] = <<>>
    /\ ctx' = [ctx EXCEPT ![p] = "canceled"]
    /\ pc' = [pc EXCEPT ![p] = "Close"]
    /\ UNCHANGED <<exporter, mutex, con, pend, ch, calls, log, openConns, described, attempts, reqCancelled>>

\* defer func() { con.Close() }()
Close(p) ==
    /\ pc[p] = "Close"
    /\ con' = [con EXCEPT ![p] = "closed"]
    /\ openConns' = openConns - 1
    /\ pc' = [pc EXCEPT ![p] = "Unlock"]
    /\ UNCHANGED <<exporter, mutex, ctx, pend, ch, calls, log, described, attempts, reqCancelled>>

\* Variant of Unlock: Collect returns without releasing the mutex.
UnlockMissing(p) ==
    /\ pc[p] = "Unlock"
    /\ pend[p] = <<>>
    /\ pc'    = [pc EXCEPT ![p] = "Lock"]
    /\ con'   = [con EXCEPT ![p] = "nil"]
    /\ ctx'   = [ctx EXCEPT ![p] = "none"]
    /\ ch'    = [ch EXCEPT ![p] = <<>>]
    /\ calls' = [calls EXCEPT ![p] = <<>>]
    /\ log'   = [log EXCEPT ![p] = <<>>]
    /\ attempts' = [attempts EXCEPT ![p] = 0]
    /\ reqCancelled' = [reqCancelled EXCEPT ![p] = FALSE]
    /\ UNCHANGED <<exporter, mutex, pend, openConns, described>>

\* defer c.Unlock(), and Collect returns: its locals and the request's
\* channel are gone, the scraper is ready for its next request
Unlock(p) ==
    /\ pc[p] = "Unlock"
    /\ pend[p] = <<>>
    /\ mutex' = 0
    /\ pc'    = [pc EXCEPT ![p] = "Lock"]
    /\ con'   = [con EXCEPT ![p] = "nil"]
    /\ ctx'   = [ctx EXCEPT ![p] = "none"]
    /\ ch'    = [ch EXCEPT ![p] = <<>>]
    /\ calls' = [calls EXCEPT ![p] = <<>>]
    /\ log'   = [log EXCEPT ![p] = <<>>]
    /\ attempts' = [attempts EXCEPT ![p] = 0]
    /\ reqCancelled' = [reqCancelled EXCEPT ![p] = FALSE]
    /\ UNCHANGED <<exporter, pend, openConns, described>>

\* Variant of DescribeOutput: only the descriptors of the samples collected
\* so far are sent.
DescribeCollected ==
    UNION {{ch[p][i].desc : i \in DOMAIN ch[p]} : p \in Scrapers}

\* the descriptors Describe sends: every value of c.metrics
DescribeOutput == {metrics[k] : k \in DOMAIN metrics}

Describe ==
    /\ described' = DescribeOutput
    /\ UNCHANGED <<exporter, mutex, pc, con, ctx, pend, ch, calls, log, openConns,
                   attempts, reqCancelled>>

\* main: the exporter is built and registered (registration runs Describe)
\* before the first request is served
Init ==
    /\ \E peerMetrics \in BOOLEAN :
          LET c == NewLightningExporter(Namespace, peerMetrics) IN
          /\ metrics = c.metrics
          /\ exportPeerMetrics = c.exportPeerMetrics
          /\ exportPaymentMetrics = c.exportPaymentMetrics
    /\ mutex = 0
    /\ pc = [p \in Scrapers |-> "Lock"]
    /\ con = [p \in Scrapers |-> "nil"]
    /\ ctx = [p \in Scrapers |-> "none"]
    /\ pend = [p \in Scrapers |-> <<>>]
    /\ ch = [p \in Scrapers |-> <<>>]
    /\ calls = [p \in Scrapers |-> <<>>]
    /\ log = [p \in Scrapers |-> <<>>]
    /\ openConns = 0
    /\ described = DescribeOutput
    /\ attempts = [p \in Scrapers |-> 0]
    /\ reqCancelled = [p \in Scrapers |-> FALSE]

Next ==
    \/ \E p \in Scrapers : Lock(p)
    \/ \E p \in Scrapers : Connect(p)
    \/ \E p \in Scrapers : DeadlineExpire(p)
    \/ \E p \in Scrapers : GetInfo(p)
    \/ \E p \in Scrapers : WalletBalance(p)
    \/ \E p \in Scrapers : PendingChannels(p)
    \/ \E p \in Scrapers : ChannelBalance(p)
    \/ \E p \in Scrapers : ForwardingHistory(p)
    \/ \E p \in Scrapers : GetNetworkInfo(p)
    \/ \E p \in Scrapers : ListChannels(p)
    \/ \E p \in Scrapers : ListPeers(p)
    \/ \E p \in Scrapers : Up(p)
    \/ \E p \in Scrapers : Send(p)
    \/ \E p \in Scrapers : Cancel(p)
    \/ \E p \in Scrapers : Close(p)
    \/ \E p \in Scrapers : Unlock(p)
    \/ Describe

Spec == Init /\ [][Next]_vars

\* a step of the invocation of Collect that holds the mutex: the connection
\* attempt or an RPC call returns, the registry receives a sample, a
\* deferred call runs
Progress(p) ==
    \/ Connect(p)
    \/ GetInfo(p)
    \/ WalletBalance(p)
    \/ PendingChannels(p)
    \/ ChannelBalance(p)
    \/ ForwardingHistory(p)
    \/ GetNetworkInfo(p)
    \/ ListChannels(p)
    \/ ListPeers(p)
    \/ Up(p)
    \/ Send(p)
    \/ Cancel(p)
    \/ Close(p)
    \/ Unlock(p)

\* The exporter with a fair mutex (a waiter of sync.Mutex is not starved),
\* a connection attempt and RPC calls that return, and a registry that keeps
\* receiving from ch.
FairSpec ==
    /\ Spec
    /\ \A p \in Scrapers : WF_vars(Progress(p)) /\ SF_vars(Lock(p))

\* The HTTP client of a scrape goes away while Collect is between two RPC
\* calls. Collect has no parameter that carries the request: its context is
\* derived from context.Background(), so nothing Collect reads changes.
RequestCancelled(p) ==
    /\ pc[p] \in {"GetInfo", "WalletBalance", "PendingChannels", "ChannelBalance",
                  "ForwardingHistory", "GetNetworkInfo", "ListChannels", "ListPeers"}
    /\ pend[p] = <<>>
    /\ ~reqCancelled[p]
    /\ reqCancelled' = [reqCancelled EXCEPT ![p] = TRUE]
    /\ UNCHANGED <<exporter, mutex, pc, con, ctx, pend, ch, calls, log, openConns,
                   described, attempts>>

\* the exporter serving clients that may give up their requests
NextCancel ==
    \/ Next
    \/ \E p \in Scrapers : RequestCancelled(p)

SpecCancel == Init /\ [][NextCancel]_vars

\* ------------------------------------------------------------ properties
\* What a scrape has done is read off ch[p] (the samples received so far),
\* calls[p] (the RPC calls issued so far) and log[p].

Name(m) == m.desc.fqName[2]

NumNamed(samples, names) ==
    Cardinality({i \in DOMAIN samples : Name(samples[i]) \in names})

IsUp(m, v) == Name(m) = "lnd_up" /\ m.value = <<v, 1>> /\ m.labels = <<>>

CallsOf(p, rpc) == {i \in DOMAIN calls[p] : calls[p][i].rpc = rpc}

Succeeded(p, rpc) == \E i \in CallsOf(p, rpc) : ~calls[p][i].out.err

HasFailed(p, rpc) == \E i \in CallsOf(p, rpc) : calls[p][i].out.err

ConnectFailed(p) == \E i \in DOMAIN log[p] : log[p][i] = "getGrpcClient() err"

\* every statement of the scrape but the deferred Unlock has run and every
\* sample has been received
Ended(p) == pc[p] = "Unlock" /\ pend[p] = <<>>

\* the samples of the call rpc have all been received
Delivered(p, rpc) ==
    /\ CallsOf(p, rpc) # {}
    /\ \/ pend[p] = <<>>
       \/ calls[p][Len(calls[p])].rpc # rpc

ProbeMetrics(rpc) ==
    CASE rpc = "WalletBalance"     -> {"wallet_balance_sats"}
      [] rpc = "PendingChannels"   -> {"channel_limbo_balance_sats", "channel_pending",
                                       "channel_waiting_close"}
      [] rpc = "ChannelBalance"    -> {"channels_balance_sats"}
      [] rpc = "ForwardingHistory" -> {"forwarding_history_info"}
      [] rpc = "GetNetworkInfo"    -> {"network_capacity_sats_total",
                                       "network_channels_total", "network_nodes_total"}
      [] rpc = "ListChannels"      -> {"channel_balance_sats",
                                       "channel_balance_percentage"}
      [] rpc = "ListPeers"         -> {"peer_info", "peer_info_received_bytes_total",
                                       "peer_info_sent_bytes_total"}

\* how many samples the spec's probe table gives a successful response
ExpectedCount(rpc, r) ==
    CASE rpc = "WalletBalance"     -> 2
      [] rpc = "PendingChannels"   -> 5
      [] rpc = "ChannelBalance"    -> 1
      [] rpc = "ForwardingHistory" -> Len(r.ForwardingEvents)
      [] rpc = "GetNetworkInfo"    -> 3
      [] rpc = "ListChannels"      ->
            Len(r.Channels)
            + Cardinality({i \in DOMAIN r.Channels :
                              r.Channels[i].Capacity - r.Channels[i].CommitFee > 0})
      [] rpc = "ListPeers"         -> 3 * Len(r.Peers)

\* the skippable probes the feature flags enable
EnabledProbes ==
    {"WalletBalance", "PendingChannels", "ChannelBalance", "GetNetworkInfo",
     "ListChannels"}
    \cup (IF exportPaymentMetrics THEN {"ForwardingHistory"} ELSE {})
    \cup (IF exportPeerMetrics THEN {"ListPeers"} ELSE {})

NodeStatusNames ==
    <<"instance_info", "peers", "channels", "channels", "channels",
      "block_height", "synced_to_chain">>

\* C1: in every scrape, whatever the connection and the RPC calls do, the
\* samples received hold at most one lnd_up sample, it is the last sample
\* received, and a scrape that has run to its end has sent exactly one.
C1_LivenessOnceAndLast ==
    \A p \in Scrapers :
        /\ NumNamed(ch[p], {"lnd_up"}) <= 1
        /\ \A i \in DOMAIN ch[p] : Name(ch[p][i]) = "lnd_up" => i = Len(ch[p])
        /\ Ended(p) => NumNamed(ch[p], {"lnd_up"}) = 1

C1_Witness ==
    \E p \in Scrapers :
        /\ Ended(p)
        /\ Len(ch[p]) > 8
        /\ HasFailed(p, "PendingChannels")
        /\ IsUp(ch[p][Len(ch[p])], 1)

\* C2: a scrape whose connection establishment failed sends exactly one
\* sample, lnd_up with value 0, issues no RPC call, opens no connection and
\* goes straight to its return.
C2_ConnectFailureOnlyLivenessZero ==
    \A p \in Scrapers :
        ConnectFailed(p) =>
            /\ calls[p] = <<>>
            /\ con[p] = "nil"
            /\ ctx[p] = "none"
            /\ pc[p] = "Unlock"
            /\ Len(ch[p] \o pend[p]) = 1
            /\ IsUp((ch[p] \o pend[p])[1], 0)

C2_Witness ==
    \E p \in Scrapers :
        /\ ConnectFailed(p)
        /\ Ended(p)
        /\ Len(ch[p]) = 1
        /\ IsUp(ch[p][1], 0)

\* C3: in a scrape whose connection and GetInfo succeeded and that has run to
\* its end, every enabled skippable probe was called exactly once whichever
\* probes failed; a failed probe has no sample in the scrape, a succeeding one
\* has all of its samples, and the last sample is lnd_up with value 1.
C3_FailedProbeIsSkippedOthersRun ==
    \A p \in Scrapers :
        (Ended(p) /\ Succeeded(p, "GetInfo")) =>
            /\ \A x \in EnabledProbes :
                  /\ Cardinality(CallsOf(p, x)) = 1
                  /\ LET c == calls[p][CHOOSE i \in CallsOf(p, x) : TRUE]
                     IN  NumNamed(ch[p], ProbeMetrics(x)) =
                            IF c.out.err THEN 0 ELSE ExpectedCount(x, c.out.val)
            /\ IsUp(ch[p][Len(ch[p])], 1)

C3_Witness ==
    \E p \in Scrapers :
        /\ Ended(p)
        /\ Succeeded(p, "GetInfo")
        /\ HasFailed(p, "WalletBalance")
        /\ HasFailed(p, "ChannelBalance")
        /\ Succeeded(p, "PendingChannels")
        /\ Succeeded(p, "ListChannels")
        /\ NumNamed(ch[p], {"channel_balance_sats"}) > 0
        /\ NumNamed(ch[p], {"wallet_balance_sats", "channels_balance_sats"}) = 0
        /\ IsUp(ch[p][Len(ch[p])], 1)

\* C4 as stated: lnd_up 0 is sent only in a scrape that has issued no RPC call
\* at all, and every scrape whose connection was established ends with
\* lnd_up 1.
C4_Original ==
    \A p \in Scrapers :
        /\ (\E i \in DOMAIN ch[p] : IsUp(ch[p][i], 0)) => calls[p] = <<>>
        /\ (Ended(p) /\ ~ConnectFailed(p)) => IsUp(ch[p][Len(ch[p])], 1)

\* C4 amended: lnd_up 0 is sent only when the connection establishment or the
\* node-status call (GetInfo) failed; in a scrape that sends lnd_up 0 no RPC
\* call other than that one failed GetInfo has been issued; and every scrape
\* whose connection and GetInfo succeeded ends with lnd_up 1, however many
\* skippable probes failed.
C4_LivenessZeroOnlyBeforeSkippableProbes ==
    \A p \in Scrapers :
        /\ (\E i \in DOMAIN (ch[p] \o pend[p]) : IsUp((ch[p] \o pend[p])[i], 0)) =>
              \/ ConnectFailed(p) /\ calls[p] = <<>>
              \/ ~ConnectFailed(p) /\ calls[p] = <<[rpc |-> "GetInfo", out |-> Failed]>>
        /\ (Ended(p) /\ Succeeded(p, "GetInfo")) => IsUp(ch[p][Len(ch[p])], 1)

C4_Witness ==
    \E p \in Scrapers :
        /\ Ended(p)
        /\ ~ConnectFailed(p)
        /\ HasFailed(p, "GetInfo")
        /\ Len(calls[p]) = 1
        /\ IsUp(ch[p][Len(ch[p])], 0)

InSession(p) == pc[p] # "Lock"

\* C5: at most one invocation of Collect is between Lock and Unlock, it is the
\* holder of the mutex, and a scraper that is still waiting at Lock has opened
\* no connection, issued no RPC call and sent no sample; at most one
\* connection is open.
C5_ScrapesSerialized ==
    /\ \A p, q \in Scrapers : (p # q) => ~(InSession(p) /\ InSession(q))
    /\ \A p \in Scrapers : InSession(p) <=> mutex = p
    /\ \A q \in Scrapers :
          ~InSession(q) =>
              /\ con[q] # "open"
              /\ ctx[q] = "none"
              /\ calls[q] = <<>>
              /\ ch[q] = <<>>
              /\ pend[q] = <<>>
    /\ openConns <= 1

C5_Witness ==
    \E p, q \in Scrapers :
        /\ p # q
        /\ mutex = p
        /\ pc[p] = "ListChannels"
        /\ con[p] = "open"
        /\ Len(ch[p]) > 7
        /\ pc[q] = "Lock"
        /\ ch[q] = <<>>

\* C6: a scrape that has reached its return holds no open connection, whatever
\* path it took; a scraper that is not in a scrape does not hold the mutex;
\* and when no scrape is in progress the mutex is free and no connection is
\* open.
C6_ConnectionClosedLockReleased ==
    /\ \A p \in Scrapers :
          /\ pc[p] = "Unlock" => (con[p] # "open" /\ openConns = 0)
          /\ pc[p] = "Lock" => (mutex # p /\ con[p] # "open")
    /\ (\A p \in Scrapers : pc[p] = "Lock") => (mutex = 0 /\ openConns = 0)

C6_Witness ==
    \E p \in Scrapers :
        /\ Ended(p)
        /\ con[p] = "closed"
        /\ ctx[p] = "canceled"
        /\ HasFailed(p, "GetInfo")
        /\ openConns = 0

Resp(p, rpc) == calls[p][CHOOSE i \in CallsOf(p, rpc) : TRUE].out.val

\* samples of scraper p with this metric name and this chan_id label
ChannelSamplesOf(p, name, channel) ==
    {i \in DOMAIN ch[p] :
        /\ Name(ch[p][i]) = name
        /\ ch[p][i].labels[4] = ToString(channel.ChanId)}

\* C7: once the samples of a successful ListChannels call are received, every
\* channel of the response has exactly one channel_balance_sats sample, with
\* its local balance as value, and a channel_balance_percentage sample if and
\* only if capacity - commit fee > 0, with value local balance / (capacity -
\* commit fee).
C7_RatioIffPositiveDenominator ==
    \A p \in Scrapers :
        (Delivered(p, "ListChannels") /\ Succeeded(p, "ListChannels")) =>
            LET cs == Resp(p, "ListChannels").Channels IN
            \A k \in DOMAIN cs :
                LET c     == cs[k]
                    times == Cardinality({j \in DOMAIN cs : cs[j] = c})
                    real  == c.Capacity - c.CommitFee
                IN  /\ Cardinality(ChannelSamplesOf(p, "channel_balance_sats", c)) = times
                    /\ Cardinality(ChannelSamplesOf(p, "channel_balance_percentage", c))
                          = IF real > 0 THEN times ELSE 0
                    /\ \A i \in ChannelSamplesOf(p, "channel_balance_sats", c) :
                          ch[p][i].value = <<c.LocalBalance, 1>>
                    /\ \A i \in ChannelSamplesOf(p, "channel_balance_percentage", c) :
                          /\ ch[p][i].value[2] > 0
                          /\ ch[p][i].value[1] * real = c.LocalBalance * ch[p][i].value[2]

C7_Witness ==
    \E p \in Scrapers :
        /\ Delivered(p, "ListChannels")
        /\ Succeeded(p, "ListChannels")
        /\ \E k \in DOMAIN Resp(p, "ListChannels").Channels :
              LET c == Resp(p, "ListChannels").Channels[k] IN
              /\ c.Capacity - c.CommitFee <= 0
              /\ ChannelSamplesOf(p, "channel_balance_sats", c) # {}
              /\ ChannelSamplesOf(p, "channel_balance_percentage", c) = {}

\* C8: in every reachable state, whatever Collect has done, Describe sends the
\* descriptors built at construction, a non-empty set, and so did the last
\* Describe that ran.
C8_DescribeFixed ==
    LET built == NewLightningExporter(Namespace, TRUE).metrics IN
    /\ DescribeOutput = {built[k] : k \in DOMAIN MetricTable}
    /\ described = DescribeOutput
    /\ described # {}

C8_Witness ==
    \E p \in Scrapers :
        /\ Ended(p)
        /\ Len(ch[p]) > 8
        /\ Cardinality(described) = Cardinality(DOMAIN MetricTable)

\* exactly one sample with this name and these label values, and its value
ExactlyOne(p, name, labels, v) ==
    LET hits == {i \in DOMAIN ch[p] :
                    Name(ch[p][i]) = name /\ ch[p][i].labels = labels}
    IN  /\ Cardinality(hits) = 1
        /\ \A i \in hits : ch[p][i].value = <<v, 1>>

\* C9: once the samples of a successful GetInfo call are received there is
\* exactly one peers sample and one channels sample per status, each with the
\* count of the response as value, a count of 0 included; the same holds for
\* the list lengths of a successful PendingChannels call; and an empty list of
\* channels, forwarding events or peers gives no per-item sample.
C9_CountsEmittedAlsoWhenZero ==
    \A p \in Scrapers :
        /\ (Delivered(p, "GetInfo") /\ Succeeded(p, "GetInfo")) =>
              LET r == Resp(p, "GetInfo") IN
              /\ ExactlyOne(p, "peers", <<>>, r.NumPeers)
              /\ ExactlyOne(p, "channels", <<"active">>, r.NumActiveChannels)
              /\ ExactlyOne(p, "channels", <<"pending">>, r.NumPendingChannels)
              /\ ExactlyOne(p, "channels", <<"inactive">>, r.NumInactiveChannels)
              /\ NumNamed(ch[p], {"peers"}) = 1
              /\ NumNamed(ch[p], {"channels"}) = 3
        /\ (Delivered(p, "PendingChannels") /\ Succeeded(p, "PendingChannels")) =>
              LET r == Resp(p, "PendingChannels") IN
              /\ ExactlyOne(p, "channel_pending", <<"opening", "false">>,
                            Len(r.PendingOpenChannels))
              /\ ExactlyOne(p, "channel_pending", <<"closing", "false">>,
                            Len(r.PendingClosingChannels))
              /\ ExactlyOne(p, "channel_pending", <<"closing", "true">>,
                            Len(r.PendingForceClosingChannels))
              /\ ExactlyOne(p, "channel_waiting_close", <<>>,
                            Len(r.WaitingCloseChannels))
              /\ NumNamed(ch[p], {"channel_pending"}) = 3
        /\ (Succeeded(p, "ListChannels") /\ Resp(p, "ListChannels").Channels = <<>>) =>
              NumNamed(ch[p] \o pend[p], ProbeMetrics("ListChannels")) = 0
        /\ (Succeeded(p, "ForwardingHistory")
               /\ Resp(p, "ForwardingHistory").ForwardingEvents = <<>>) =>
              NumNamed(ch[p] \o pend[p], ProbeMetrics("ForwardingHistory")) = 0
        /\ (Succeeded(p, "ListPeers") /\ Resp(p, "ListPeers").Peers = <<>>) =>
              NumNamed(ch[p] \o pend[p], ProbeMetrics("ListPeers")) = 0

C9_Witness ==
    \E p \in Scrapers :
        /\ Ended(p)
        /\ Succeeded(p, "GetInfo")
        /\ Resp(p, "GetInfo").NumPeers = 5
        /\ Resp(p, "GetInfo").NumInactiveChannels = 0
        /\ ExactlyOne(p, "channels", <<"inactive">>, 0)
        /\ Succeeded(p, "PendingChannels")
        /\ Resp(p, "PendingChannels").PendingOpenChannels = <<>>
        /\ ExactlyOne(p, "channel_pending", <<"opening", "false">>, 0)
        /\ Succeeded(p, "ListChannels")
        /\ Resp(p, "ListChannels").Channels = <<>>

\* C10: a scrape whose GetInfo call failed has issued that one call only, has
\* sent or is about to send the single sample lnd_up 0, is on its way out
\* through the deferred cancel, Close and Unlock, and has closed its
\* connection when it reaches Unlock; conversely a scrape with any sample other
\* than lnd_up has the seven node-status samples as its first samples, in
\* order, and ends with lnd_up 1.
C10_GetInfoFailureIsConnectionClass ==
    \A p \in Scrapers :
        /\ HasFailed(p, "GetInfo") =>
              /\ Len(calls[p]) = 1
              /\ Len(ch[p] \o pend[p]) = 1
              /\ IsUp((ch[p] \o pend[p])[1], 0)
              /\ pc[p] \in {"cancel", "Close", "Unlock"}
              /\ pc[p] = "Unlock" => con[p] = "closed"
        /\ (\E i \in DOMAIN ch[p] : Name(ch[p][i]) # "lnd_up") =>
              /\ Succeeded(p, "GetInfo")
              /\ \A i \in DOMAIN ch[p] :
                    /\ i <= 7 => Name(ch[p][i]) = NodeStatusNames[i]
                    /\ i > 7 => Name(ch[p][i]) \notin
                                   {NodeStatusNames[j] : j \in 1..7}
              /\ Ended(p) => (Len(ch[p]) > 7 /\ IsUp(ch[p][Len(ch[p])], 1))

C10_Witness ==
    \E p \in Scrapers :
        /\ Ended(p)
        /\ calls[p] = <<[rpc |-> "GetInfo", out |-> Failed]>>
        /\ ctx[p] = "expired" \/ ctx[p] = "canceled"
        /\ con[p] = "closed"
        /\ ch[p] = <<UpSample(0)>>

\* the scrape has sent everything and is about to run its deferred calls
AtDeferred(p) == pc[p] = "cancel" /\ pend[p] = <<>>

IsPrefix(s, t) == Len(s) <= Len(t) /\ \A i \in DOMAIN s : s[i] = t[i]

\* C11 as stated: once the deadline has expired in the probing phase no probe
\* sends a sample any more and the scrape ends with lnd_up 1.
C11_Original ==
    \A p \in Scrapers :
        ctx[p] = "expired" =>
            /\ \A i \in DOMAIN pend[p] : Name(pend[p][i]) = "lnd_up"
            /\ AtDeferred(p) => IsUp(ch[p][Len(ch[p])], 1)

\* C11 amended: a session has one context, bound after the connection is
\* established; once it has expired it stays expired until the deferred
\* cancel, every call issued under it fails and sends no sample, the samples
\* received before stay as they are, and the scrape ends with lnd_up 1 if
\* GetInfo had succeeded before the expiry and with lnd_up 0 if it had not;
\* either way the connection is closed and the mutex released on return.
C11_SharedDeadlineSkipsRemainingProbes ==
    /\ [](\A p \in Scrapers :
            /\ ctx[p] = "expired" =>
                  /\ \A i \in DOMAIN pend[p] : Name(pend[p][i]) = "lnd_up"
                  /\ (AtDeferred(p) /\ Succeeded(p, "GetInfo")) =>
                        IsUp(ch[p][Len(ch[p])], 1)
                  /\ (AtDeferred(p) /\ ~Succeeded(p, "GetInfo")) =>
                        ch[p] = <<UpSample(0)>>
            /\ (pc[p] = "Unlock" /\ ctx[p] = "canceled") => con[p] = "closed"
            /\ pc[p] = "Lock" => (mutex # p /\ ctx[p] = "none"))
    /\ [][\A p \in Scrapers :
            /\ ctx[p] = "expired" =>
                  /\ ctx'[p] \in {"expired", "canceled"}
                  /\ calls'[p] # calls[p] =>
                        /\ Len(calls'[p]) = Len(calls[p]) + 1
                        /\ calls'[p][Len(calls'[p])].out.err
                  /\ ch'[p] # ch[p] =>
                        /\ Len(ch'[p]) = Len(ch[p]) + 1
                        /\ Name(ch'[p][Len(ch'[p])]) = "lnd_up"
            /\ pc[p] # "Unlock" => IsPrefix(ch[p], ch'[p])]_vars

C11_Witness ==
    \E p \in Scrapers :
        /\ ctx[p] = "expired"
        /\ AtDeferred(p)
        /\ Succeeded(p, "WalletBalance")
        /\ HasFailed(p, "PendingChannels")
        /\ HasFailed(p, "ListChannels")
        /\ NumNamed(ch[p], {"wallet_balance_sats"}) = 2
        /\ Len(ch[p]) = 10
        /\ IsUp(ch[p][Len(ch[p])], 1)

\* ------------------------------------------------------------------ C12
\* C12: external cancellation of the scrape request during the probing phase
\* halts the remaining probe sequence: a probe that runs after the
\* cancellation produces no samples (only the liveness sample may still be
\* queued), and when the scrape has ended its connection is closed; a scraper
\* that has returned does not hold the lock.
C12_CancellationHaltsProbes ==
    \A p \in Scrapers :
        /\ reqCancelled[p] =>
              /\ \A i \in DOMAIN pend[p] : Name(pend[p][i]) = "lnd_up"
              /\ pc[p] = "Unlock" => con[p] = "closed"
        /\ pc[p] = "Lock" => mutex # p

\* ------------------------------------------------------------------ C13
FailedCalls(p) == {i \in DOMAIN calls[p] : calls[p][i].out.err}

\* C13: every RPC call that fails in a scrape adds a log entry for that call,
\* and a connection failure is logged as well: a scrape has at least as many
\* log entries as failed calls, and a scrape whose connection failed has a
\* log entry.
C13_EveryFailedCallLogged ==
    \A p \in Scrapers :
        /\ Len(log[p]) >= Cardinality(FailedCalls(p))
        /\ (pc[p] = "Unlock" /\ con[p] = "nil") => log[p] # <<>>

\* ------------------------------------------------------------------ C14
\* the order of the probes in the spec's table, the liveness sample last
ProbeOrder ==
    <<"GetInfo", "WalletBalance", "PendingChannels", "ChannelBalance",
      "ForwardingHistory", "GetNetworkInfo", "ListChannels", "ListPeers", "lnd_up">>

\* the metric names of the samples of a call
NamesOf(rpc) ==
    IF rpc = "GetInfo"
    THEN {NodeStatusNames[i] : i \in DOMAIN NodeStatusNames}
    ELSE IF rpc = "lnd_up" THEN {"lnd_up"}
    ELSE ProbeMetrics(rpc)

\* the place of a probe in the order, and of the probe a metric belongs to
PosOfProbe ==
    [rpc \in {ProbeOrder[i] : i \in DOMAIN ProbeOrder} |->
        CHOOSE i \in DOMAIN ProbeOrder : ProbeOrder[i] = rpc]

PosOfName ==
    [n \in UNION {NamesOf(ProbeOrder[i]) : i \in DOMAIN ProbeOrder} |->
        CHOOSE i \in DOMAIN ProbeOrder : n \in NamesOf(ProbeOrder[i])]

Pos(rpc) == PosOfProbe[rpc]

\* the probe a sample belongs to
ProbeOf(m) == ProbeOrder[PosOfName[Name(m)]]

\* everything p has emitted so far: received or queued for sending
Emitted(p) == ch[p] \o pend[p]

SelectProbes(order, keep) == SelectSeq(order, LAMBDA rpc : rpc \in keep)

\* C14: in every scrape the RPC calls are issued in the fixed order GetInfo,
\* WalletBalance, PendingChannels, ChannelBalance, ForwardingHistory,
\* GetNetworkInfo, ListChannels, ListPeers, each at most once (a failed call
\* is not retried: each call is later in the order than the call before it),
\* the samples follow the same probe order and come from calls that
\* succeeded, and a scrape that ends after a successful GetInfo has issued
\* every enabled call once.
C14_FixedOrderAtMostOnce ==
    \A p \in Scrapers :
        /\ \A i \in 1..(Len(calls[p]) - 1) :
              Pos(calls[p][i].rpc) < Pos(calls[p][i + 1].rpc)
        /\ \A i \in 1..(Len(ch[p]) - 1) :
              PosOfName[Name(ch[p][i])] <= PosOfName[Name(ch[p][i + 1])]
        /\ \A i \in 1..(Len(pend[p]) - 1) :
              PosOfName[Name(pend[p][i])] <= PosOfName[Name(pend[p][i + 1])]
        /\ (ch[p] # <<>> /\ pend[p] # <<>>) =>
              PosOfName[Name(ch[p][Len(ch[p])])] <= PosOfName[Name(pend[p][1])]
        /\ \A rpc \in ({ProbeOf(ch[p][i]) : i \in DOMAIN ch[p]}
                        \cup {ProbeOf(pend[p][i]) : i \in DOMAIN pend[p]}) \ {"lnd_up"} :
              Succeeded(p, rpc)
        /\ (Ended(p) /\ Succeeded(p, "GetInfo")) =>
              [i \in DOMAIN calls[p] |-> calls[p][i].rpc]
                  = SelectProbes(ProbeOrder, EnabledProbes \cup {"GetInfo"})

\* a scrape has ended in which a call failed and calls before and after it
\* succeeded, with samples of the first and of the last probe received
C14_Witness ==
    \E p \in Scrapers :
        /\ Ended(p)
        /\ Len(calls[p]) = 8
        /\ HasFailed(p, "PendingChannels")
        /\ Succeeded(p, "WalletBalance")
        /\ Succeeded(p, "ListPeers")
        /\ NumNamed(ch[p], {"peer_info"}) >= 1
        /\ NumNamed(ch[p], {"instance_info"}) = 1

\* ------------------------------------------------------------------ C15
\* the number of labels the spec gives each metric
LabelCount(name) ==
    CASE name \in {"lnd_up", "network_capacity_sats_total", "network_channels_total",
                   "network_nodes_total", "peers", "block_height", "synced_to_chain",
                   "channel_limbo_balance_sats", "channel_waiting_close",
                   "channels_balance_sats"} -> 0
      [] name \in {"wallet_balance_sats", "channels",
                   "peer_info_received_bytes_total", "peer_info_sent_bytes_total"} -> 1
      [] name \in {"channel_pending"} -> 2
      [] name \in {"instance_info", "peer_info"} -> 3
      [] name \in {"forwarding_history_info", "channel_balance_sats",
                   "channel_balance_percentage"} -> 8
      [] OTHER -> -1

\* C15: every sample Collect emits references a descriptor of the catalog
\* built at construction, and carries as many label values as that
\* descriptor has label names, which is the number the spec lists for it.
C15_LabelValuesMatchDescriptor ==
    \A p \in Scrapers :
        \A m \in {ch[p][i] : i \in DOMAIN ch[p]} \cup {pend[p][i] : i \in DOMAIN pend[p]} :
            /\ \E k \in DOMAIN metrics : metrics[k] = m.desc
            /\ m.desc \in described
            /\ Len(m.labels) = Len(m.desc.labels)
            /\ Len(m.labels) = LabelCount(Name(m))

\* a scrape has ended that delivered samples with 0, 1, 2, 3 and 8 labels,
\* those of the forwarding, channel and peer probes among them
C15_Witness ==
    \E p \in Scrapers :
        /\ Ended(p)
        /\ IsUp(ch[p][Len(ch[p])], 1)
        /\ NumNamed(ch[p], {"forwarding_history_info"}) >= 1
        /\ NumNamed(ch[p], {"channel_balance_percentage"}) >= 1
        /\ NumNamed(ch[p], {"peer_info_sent_bytes_total"}) >= 1
        /\ NumNamed(ch[p], {"channel_pending"}) = 3
        /\ NumNamed(ch[p], {"instance_info"}) = 1

\* ------------------------------------------------------------------ C16
\* how many samples the call c of a scrape owes the metric stream
SamplesDue(c) ==
    IF c.out.err THEN 0
    ELSE IF c.rpc = "GetInfo" THEN Len(NodeStatusNames)
    ELSE ExpectedCount(c.rpc, c.out.val)

\* C16: samples are emitted incrementally: once a further RPC call has been
\* issued, all samples of every earlier call of the scrape have been received
\* by the metric stream, and they stay received whatever the later calls do;
\* nothing is queued while a call is at its call site.
C16_EarlierSamplesDeliveredBeforeNextCall ==
    \A p \in Scrapers :
        /\ \A i \in 1..(Len(calls[p]) - 1) :
              NumNamed(ch[p], NamesOf(calls[p][i].rpc)) = SamplesDue(calls[p][i])
        /\ (pend[p] # <<>> /\ calls[p] # <<>>) =>
              \A i \in DOMAIN pend[p] :
                  Name(pend[p][i]) \in NamesOf(calls[p][Len(calls[p])].rpc) \cup {"lnd_up"}

\* the deadline ran out before the third call: the samples of the first two
\* calls are already received
C16_Witness ==
    \E p \in Scrapers :
        /\ pc[p] = "ChannelBalance"
        /\ ctx[p] = "expired"
        /\ Succeeded(p, "GetInfo")
        /\ Succeeded(p, "WalletBalance")
        /\ HasFailed(p, "PendingChannels")
        /\ Len(ch[p]) = 9
        /\ NumNamed(ch[p], {"wallet_balance_sats"}) = 2

\* ------------------------------------------------------------------ C17
\* the call rpc was issued once, directly after the call before
IssuedOnceAfter(p, rpc, before) ==
    /\ Cardinality(CallsOf(p, rpc)) = 1
    /\ \A i \in CallsOf(p, rpc) : i > 1 /\ calls[p][i - 1].rpc = before

\* C17: the forwarding probe and the peer probe are gated by their flags. With
\* a flag disabled its call (ForwardingHistory, ListPeers) is never issued
\* and none of its samples is emitted; in a scrape that ends after a
\* successful GetInfo the five ungated probes are each called once and the
\* last sample is lnd_up 1 whatever the flags are, and a probe whose flag is
\* enabled is called once at its place: ForwardingHistory directly after
\* ChannelBalance, ListPeers directly after ListChannels.
C17_FeatureFlagsGateProbes ==
    \A p \in Scrapers :
        /\ ~exportPaymentMetrics =>
              /\ CallsOf(p, "ForwardingHistory") = {}
              /\ NumNamed(Emitted(p), ProbeMetrics("ForwardingHistory")) = 0
        /\ ~exportPeerMetrics =>
              /\ CallsOf(p, "ListPeers") = {}
              /\ NumNamed(Emitted(p), ProbeMetrics("ListPeers")) = 0
        /\ (Ended(p) /\ Succeeded(p, "GetInfo")) =>
              /\ \A x \in {"WalletBalance", "PendingChannels", "ChannelBalance",
                            "GetNetworkInfo", "ListChannels"} :
                    Cardinality(CallsOf(p, x)) = 1
              /\ IsUp(ch[p][Len(ch[p])], 1)
              /\ exportPaymentMetrics =>
                    /\ IssuedOnceAfter(p, "ForwardingHistory", "ChannelBalance")
                    /\ IssuedOnceAfter(p, "GetNetworkInfo", "ForwardingHistory")
              /\ exportPeerMetrics =>
                    /\ IssuedOnceAfter(p, "ListPeers", "ListChannels")
                    /\ calls[p][Len(calls[p])].rpc = "ListPeers"
              /\ ~exportPeerMetrics => calls[p][Len(calls[p])].rpc = "ListChannels"

\* a scrape of an exporter built without peer metrics has ended: seven calls,
\* all successful, forwarding samples received, no peer sample, lnd_up 1
C17_Witness ==
    \E p \in Scrapers :
        /\ ~exportPeerMetrics
        /\ exportPaymentMetrics
        /\ Ended(p)
        /\ Len(calls[p]) = 7
        /\ \A i \in DOMAIN calls[p] : ~calls[p][i].out.err
        /\ NumNamed(ch[p], {"forwarding_history_info"}) >= 1
        /\ NumNamed(ch[p], {"channel_balance_sats"}) >= 1
        /\ IsUp(ch[p][Len(ch[p])], 1)

\* ------------------------------------------------------------------ C18
\* the samples the code makes of the response of a successful call
SamplesOfCall(c) ==
    CASE c.out.err                 -> <<>>
      [] c.rpc = "GetInfo"           -> InfoSamples(c.out.val)
      [] c.rpc = "WalletBalance"     -> WalletSamples(c.out.val)
      [] c.rpc = "PendingChannels"   -> PendingSamples(c.out.val)
      [] c.rpc = "ChannelBalance"    -> ChannelBalanceSamples(c.out.val)
      [] c.rpc = "ForwardingHistory" -> ForwardingSamples(c.out.val)
      [] c.rpc = "GetNetworkInfo"    -> NetworkSamples(c.out.val)
      [] c.rpc = "ListChannels"      -> ListChannelsSamples(c.out.val)
      [] c.rpc = "ListPeers"         -> ListPeersSamples(c.out.val)

\* C18: scrapes share and cache nothing. A scrape that holds the lock and is
\* past the connection step has made exactly one connection attempt of its
\* own, so has every scrape that ends (N ended scrapes, N attempts); a
\* scraper that has not acquired the lock has made none and holds no result;
\* and the samples of a scrape other than lnd_up are exactly the samples of
\* the responses its own calls obtained, in the order of the calls.
C18_NoSharingOneAttemptPerScrape ==
    \A p \in Scrapers :
        /\ attempts[p] = IF pc[p] \in {"Lock", "Connect"} THEN 0 ELSE 1
        /\ pc[p] = "Lock" =>
              (calls[p] = <<>> /\ Emitted(p) = <<>> /\ con[p] = "nil")
        /\ SelectSeq(Emitted(p), LAMBDA m : Name(m) # "lnd_up")
              = Flatten([i \in DOMAIN calls[p] |-> SamplesOfCall(calls[p][i])])

\* one scraper has ended a scrape with samples of its own calls while another
\* one is blocked on the lock with no attempt made and nothing in hand
C18_Witness ==
    \E p, q \in Scrapers :
        /\ p # q
        /\ Ended(p)
        /\ attempts[p] = 1
        /\ Succeeded(p, "ListChannels")
        /\ NumNamed(ch[p], {"channel_balance_sats"}) >= 1
        /\ pc[q] = "Lock"
        /\ attempts[q] = 0

\* ------------------------------------------------------------------ C19
\* C19: with a fair lock, calls that return and a consumer that keeps
\* receiving, a scraper waiting at the lock eventually acquires it, and a
\* scrape that holds the lock eventually has its one lnd_up sample received
\* with nothing left to send, and eventually releases the lock.
C19_EveryScrapeCompletes ==
    \A p \in Scrapers :
        /\ (pc[p] = "Lock") ~> (mutex = p)
        /\ (mutex = p) ~> (Ended(p) /\ NumNamed(ch[p], {"lnd_up"}) = 1)
        /\ (mutex = p) ~> (mutex # p /\ pc[p] = "Lock")

\* a scraper is blocked on the lock while the holder is in the middle of its
\* probes with the deadline already expired
C19_Witness ==
    \E p, q \in Scrapers :
        /\ p # q
        /\ mutex = p
        /\ pc[q] = "Lock"
        /\ pc[p] = "ListChannels"
        /\ ctx[p] = "expired"
        /\ pend[p] = <<>>

====
